---- MODULE Spec2Model ----
(***************************************************************************)
(* Dynamic-Wa material law of opm-material: the parameter stores           *)
(* (DynamicWaParams, RegularizedDynamicWaParams), the raw evaluator        *)
(* (DynamicWa) and the regularized evaluator (RegularizedDynamicWa).       *)
(*                                                                         *)
(* Scalars.  The code computes in a floating-point Scalar.  The model      *)
(* computes the same expressions, in the same order, over the exact        *)
(* rationals extended with the IEEE non-finite values +inf, -inf and NaN   *)
(* (rounding and signed zeros are not modelled).  Numerators and           *)
(* denominators are arbitrary-precision naturals, kept as little-endian    *)
(* sequences of base-1000 limbs, because the finite-difference step 1e-7   *)
(* makes them exceed the range of TLC's integers.  pow() is computed for   *)
(* integer exponents; the coefficient sets below keep -1/lambda and        *)
(* llambda integral.                                                       *)
(***************************************************************************)
EXTENDS Integers, Sequences, FiniteSets, TLC

VARIABLES params, fluidState, last, nset, threads

vars == <<params, fluidState, last, nset, threads>>

(***************************************************************************)
(* Arbitrary-precision naturals.                                           *)
(***************************************************************************)
Base == 10 * 10 * 10

RECURSIVE NTrim(_)
NTrim(a) ==
  IF a = <<>> THEN a
  ELSE IF a[Len(a)] = 0 THEN NTrim(SubSeq(a, 1, Len(a) - 1)) ELSE a

RECURSIVE NOfInt(_)
NOfInt(i) == IF i = 0 THEN <<>> ELSE <<i % Base>> \o NOfInt(i \div Base)

RECURSIVE NToInt(_)
NToInt(a) == IF a = <<>> THEN 0 ELSE a[1] + Base * NToInt(Tail(a))

Limb(a, i) == IF i <= Len(a) THEN a[i] ELSE 0

RECURSIVE NAddFrom(_, _, _, _)
NAddFrom(a, b, i, c) ==
  IF i > Len(a) /\ i > Len(b)
  THEN (IF c = 0 THEN <<>> ELSE <<c>>)
  ELSE LET s == Limb(a, i) + Limb(b, i) + c
       IN  <<s % Base>> \o NAddFrom(a, b, i + 1, s \div Base)

NAdd(a, b) == NAddFrom(a, b, 1, 0)

RECURSIVE NCmpFrom(_, _, _)
NCmpFrom(a, b, i) ==
  IF i = 0 THEN 0
  ELSE IF a[i] < b[i] THEN -1
  ELSE IF a[i] > b[i] THEN 1
  ELSE NCmpFrom(a, b, i - 1)

\* -1, 0 or 1 as a < b, a = b, a > b (both trimmed)
NCmp(a, b) ==
  IF Len(a) < Len(b) THEN -1
  ELSE IF Len(a) > Len(b) THEN 1
  ELSE NCmpFrom(a, b, Len(a))

RECURSIVE NSubFrom(_, _, _, _)
NSubFrom(a, b, i, c) ==
  IF i > Len(a) THEN <<>>
  ELSE LET s == a[i] - Limb(b, i) - c
       IN  IF s < 0 THEN <<s + Base>> \o NSubFrom(a, b, i + 1, 1)
                    ELSE <<s>> \o NSubFrom(a, b, i + 1, 0)

\* a - b for a >= b
NSub(a, b) == NTrim(NSubFrom(a, b, 1, 0))

RECURSIVE NConv(_, _, _, _)
NConv(a, b, k, i) ==
  IF i > Len(a) \/ i > k THEN 0
  ELSE (IF k + 1 - i <= Len(b) THEN a[i] * b[k + 1 - i] ELSE 0)
       + NConv(a, b, k, i + 1)

RECURSIVE NMulFrom(_, _, _, _)
NMulFrom(a, b, k, c) ==
  IF k > Len(a) + Len(b) THEN <<>>
  ELSE LET s == c + NConv(a, b, k, 1)
       IN  <<s % Base>> \o NMulFrom(a, b, k + 1, s \div Base)

NOne == <<1>>

NMul(a, b) ==
  IF a = <<>> \/ b = <<>> THEN <<>>
  ELSE IF a = NOne THEN b
  ELSE IF b = NOne THEN a
  ELSE NTrim(NMulFrom(a, b, 1, 0))

RECURSIVE NDivFrom(_, _, _, _)
NDivFrom(a, k, i, r) ==
  IF i = 0 THEN <<>>
  ELSE LET cur == r * Base + a[i]
       IN  Append(NDivFrom(a, k, i - 1, cur % k), cur \div k)

\* a \div k for a small k that divides a
NDivSmall(a, k) == NTrim(NDivFrom(a, k, Len(a), 0))

RECURSIVE Gcd(_, _)
Gcd(x, y) == IF y = 0 THEN x ELSE Gcd(y, x % y)

\* a fraction n/d (d > 0) with the common factors that are cheap to find
\* removed: the exact gcd when both fit an integer, powers of ten otherwise
RECURSIVE NReduce(_, _)
NReduce(n, d) ==
  IF n = <<>> THEN <<n, NOne>>
  ELSE IF n = d THEN <<NOne, NOne>>
  ELSE IF Len(n) <= 3 /\ Len(d) <= 3
  THEN LET x == NToInt(n)
           y == NToInt(d)
           g == Gcd(x, y)
       IN  <<NOfInt(x \div g), NOfInt(y \div g)>>
  ELSE IF n[1] % 10 = 0 /\ d[1] % 10 = 0
  THEN NReduce(NDivSmall(n, 10), NDivSmall(d, 10))
  ELSE <<n, d>>

(***************************************************************************)
(* Scalars: sg * n / d with sg in {-1, 0, 1}, or one of the non-finite     *)
(* values.  Arithmetic follows IEEE 754 for the non-finite cases.          *)
(***************************************************************************)
SNaN == [k |-> "nan", sg |-> 0, n |-> <<>>, d |-> NOne]
SPInf == [k |-> "inf", sg |-> 1, n |-> <<>>, d |-> NOne]
SNInf == [k |-> "inf", sg |-> -1, n |-> <<>>, d |-> NOne]
SInf(sg) == IF sg < 0 THEN SNInf ELSE SPInf

\* the finite scalar of sign sg whose reduced fraction is r[1] / r[2]
SReduced(sg, n, r) ==
  [k |-> "fin", sg |-> (IF n = <<>> THEN 0 ELSE sg), n |-> r[1], d |-> r[2]]

SFin(sg, n, d) == SReduced(sg, n, NReduce(n, d))

Sgn(i) == IF i < 0 THEN -1 ELSE IF i > 0 THEN 1 ELSE 0
Abs(i) == IF i < 0 THEN -i ELSE i

\* the scalar i / j, for integers i and j > 0
SFrac(i, j) ==
  [k |-> "fin", sg |-> Sgn(i),
   n |-> NOfInt(Abs(i) \div Gcd(Abs(i), j)), d |-> NOfInt(j \div Gcd(Abs(i), j))]
SInt(i) == [k |-> "fin", sg |-> Sgn(i), n |-> NOfInt(Abs(i)), d |-> NOne]
SZero == SInt(0)
SOne == SInt(1)

IsFin(x) == x.k = "fin"
IsNaN(x) == x.k = "nan"
IsInf(x) == x.k = "inf"

SNeg(x) == IF IsNaN(x) THEN x ELSE [x EXCEPT !.sg = -x.sg]

\* sign of x - y for x and y that are not NaN
SCmp(x, y) ==
  IF IsInf(x) \/ IsInf(y)
  THEN Sgn((IF IsInf(x) THEN 2 * x.sg ELSE x.sg) - (IF IsInf(y) THEN 2 * y.sg ELSE y.sg))
  ELSE IF x.sg # y.sg THEN Sgn(x.sg - y.sg)
  ELSE x.sg * NCmp(NMul(x.n, y.d), NMul(y.n, x.d))

\* the comparisons of the language: false as soon as an operand is NaN
SLt(x, y) == ~IsNaN(x) /\ ~IsNaN(y) /\ SCmp(x, y) < 0
SLe(x, y) == ~IsNaN(x) /\ ~IsNaN(y) /\ SCmp(x, y) <= 0
SGt(x, y) == SLt(y, x)
SGe(x, y) == SLe(y, x)

\* An arithmetic expression of the code is a term over scalars; Eval computes
\* its value, operands first.  What the evaluators return and what
\* finalize() stores is kept as the term of the computation that produced it:
\* the code never branches on such a value.  The saturations the code
\* compares (Sw, the threshold, their neighbours at distance eps) are kept as
\* scalars.
Neg(x) == [k |-> "neg", a |-> x, b |-> SZero]
Add(x, y) == [k |-> "add", a |-> x, b |-> y]
Sub(x, y) == Add(x, Neg(y))
Mul(x, y) == [k |-> "mul", a |-> x, b |-> y]
Div(x, y) == [k |-> "div", a |-> x, b |-> y]
\* Opm::pow(x, y), Opm::min(x, y)
Pow(x, y) == [k |-> "pow", a |-> x, b |-> y]
Min(x, y) == [k |-> "min", a |-> x, b |-> y]

IsTerm(t) == t.k \in {"neg", "add", "mul", "div", "pow", "min"}

\* a finite result sg * n / d that is not reduced yet
Unreduced(sg, n, d) == [k |-> "unreduced", sg |-> sg, n |-> n, d |-> d]

\* x + y for finite nonzero x and y with |x| = a / dd, |y| = b / dd and
\* c the sign of a - b
SumOver(x, y, a, b, dd, c) ==
  IF x.sg = y.sg THEN Unreduced(x.sg, NAdd(a, b), dd)
  ELSE IF c = 0 THEN SZero
  ELSE IF c > 0 THEN Unreduced(x.sg, NSub(a, b), dd)
  ELSE Unreduced(y.sg, NSub(b, a), dd)

SumAligned(x, y, a, b, dd) == SumOver(x, y, a, b, dd, NCmp(a, b))

\* x + y for x and y that are not NaN
Sum(x, y) ==
  IF IsInf(x) THEN (IF IsInf(y) /\ y.sg # x.sg THEN SNaN ELSE x)
  ELSE IF IsInf(y) THEN y
  ELSE IF x.sg = 0 THEN y
  ELSE IF y.sg = 0 THEN x
  ELSE SumAligned(x, y,
                  IF x.d = y.d THEN x.n ELSE NMul(x.n, y.d),
                  IF x.d = y.d THEN y.n ELSE NMul(y.n, x.d),
                  IF x.d = y.d THEN x.d ELSE NMul(x.d, y.d))

\* x * (yn / yd) for finite nonzero x and yn / yd > 0, of sign sg
ProductOver(sg, x, yn, yd) == Unreduced(sg, NMul(x.n, yn), NMul(x.d, yd))

\* x * y (quotient FALSE) or x / y (quotient TRUE), for x and y not NaN
Product(x, y, quotient) ==
  IF quotient /\ IsInf(y) THEN (IF IsInf(x) THEN SNaN ELSE SZero)
  ELSE IF quotient /\ y.sg = 0 THEN (IF x.sg = 0 THEN SNaN ELSE SInf(x.sg))
  ELSE IF IsInf(x) \/ IsInf(y)
  THEN (IF x.sg * y.sg = 0 THEN SNaN ELSE SInf(x.sg * y.sg))
  ELSE IF x.sg * y.sg = 0 THEN SZero
  ELSE ProductOver(x.sg * y.sg, x,
                   IF quotient THEN y.d ELSE y.n, IF quotient THEN y.n ELSE y.d)

IsInteger(e) == IsFin(e) /\ e.d = NOne

RECURSIVE Eval(_)

\* pow(x, e) for an infinite e and an x that is neither 1 nor NaN: by the
\* sign c of |x| - 1
PowerToInf(e, c) ==
  IF c = 0 THEN SOne
  ELSE IF c * e.sg > 0 THEN SPInf
  ELSE SZero

\* Opm::pow(x, e) is std::pow.  Integer exponents are computed exactly, by
\* repeated multiplication; for any other exponent only the cases with an
\* exact result are defined.
Power(x, e) ==
  IF IsFin(x) /\ x = SOne THEN SOne
  ELSE IF IsInteger(e) /\ e.sg = 0 THEN SOne
  ELSE IF IsNaN(x) \/ IsNaN(e) THEN SNaN
  ELSE IF IsInf(e)
  THEN PowerToInf(e, IF IsInf(x) THEN 1 ELSE NCmp(x.n, x.d))
  ELSE IF IsInteger(e) /\ e.sg > 0
  THEN Eval(Mul(x, Pow(x, SInt(NToInt(e.n) - 1))))
  ELSE IF IsInteger(e) THEN Eval(Div(SOne, Pow(x, SNeg(e))))
  ELSE CASE IsFin(x) /\ x.sg = 0 -> (IF e.sg > 0 THEN SZero ELSE SPInf)

\* the operation op of a term, applied to the values of its operands
Apply(op, x, y) ==
  IF op = "neg" THEN SNeg(x)
  \* Opm::min(a, b) is std::min: b when b < a, else a
  ELSE IF op = "min" THEN (IF SLt(y, x) THEN y ELSE x)
  ELSE IF op = "pow" THEN Power(x, y)
  ELSE IF IsNaN(x) \/ IsNaN(y) THEN SNaN
  ELSE IF op = "add" THEN Sum(x, y)
  ELSE Product(x, y, op = "div")

Reduced(r) == IF r.k = "unreduced" THEN SFin(r.sg, r.n, r.d) ELSE r

Eval(t) == IF IsTerm(t) THEN Reduced(Apply(t.k, Eval(t.a), Eval(t.b))) ELSE t

\* x and y are the same number: equal finite values, the same infinity, or
\* both NaN
SameNumber(x, y) ==
  /\ x.k = y.k
  /\ IsNaN(x) \/ SCmp(x, y) = 0

\* the terms x and y have the same value
SSame(x, y) == SameNumber(Eval(x), Eval(y))

SAdd(x, y) == Eval(Add(x, y))
SSub(x, y) == Eval(Sub(x, y))
SMul(x, y) == Eval(Mul(x, y))
SDiv(x, y) == Eval(Div(x, y))

(***************************************************************************)
(* Outcomes of a call: a returned value, a normal return without a value,  *)
(* or one of the two fatal endings.                                        *)
(***************************************************************************)
Val(v) == [kind |-> "val", v |-> v]
Void == [kind |-> "void", v |-> <<>>]
\* assert(...) failed: the process aborts
AssertFailure == [kind |-> "assert", v |-> <<>>]
\* EnsureFinalized::check() failed
NotFinalized == [kind |-> "fatal", v |-> <<>>]

IsVal(o) == o.kind = "val"
Failed(o) == o.kind \in {"assert", "fatal"}

(***************************************************************************)
(* Bounds of the model.                                                    *)
(***************************************************************************)
\* coefficient profiles the stores are configured from
NumProfiles == 2
\* the dynamic variable Wa ranges over 0 .. MaxWa
MaxWa == 1
\* setter calls in one run of the client
MaxSetterCalls == 1

Profiles == 1 .. NumProfiles

\* The coefficients of profile i.  -1/lambda and llambda are integers.
Profile(i) ==
  [ entryPressure_      |-> SInt(1000 * i),
    finalEntryPressure_ |-> SInt(6000 - 1000 * i),
    lambda_             |-> SFrac(1, i),
    llambda_            |-> SInt(i + 1),
    beta_               |-> SFrac(i, 10),
    eta_                |-> SInt(i),
    ei_                 |-> SFrac(i, 2),
    ef_                 |-> SFrac(i + 3, 2) ]

Coefficients ==
  { "entryPressure_", "finalEntryPressure_", "lambda_", "llambda_",
    "beta_", "eta_", "ei_", "ef_" }

Derived == {"pcnwLow_", "pcnwSlopeLow_", "pcnwHigh_", "pcnwSlopeHigh_"}

\* What a coefficient that no constructor and no setter has assigned holds
\* is indeterminate.  The memory images the model draws it from: image 0 is
\* zeroed memory, image g > 0 holds the values of profile g.
Images == 0 .. NumProfiles
MemoryImage(g) == IF g = 0 THEN [f \in Coefficients |-> SZero] ELSE Profile(g)

\* values a setter of coefficient f is called with
SetterVals(f) == {Profile(i)[f] : i \in Profiles}

WaVals == {SInt(w) : w \in 0 .. MaxWa}

(***************************************************************************)
(* The parameter stores.                                                   *)
(***************************************************************************)
\* const Scalar eps = 1e-7 of RegularizedDynamicWaParams::dPcnw_dSw_
ParamsEps == SFrac(1, 10000000)
\* const Scalar eps = 1e-7 of RegularizedDynamicWa::twoPhaseSatPcnw
EvalEps == SFrac(1, 10000000)
\* pcnwLowSw_(0.01) of the two constructors
DefaultPcnwLowSw == SFrac(1, 100)

\* values setPcLowSw is called with: the default, another interior value,
\* and the values at and next to the ends of [0, 1]
ThresholdVals ==
  {SZero, ParamsEps, DefaultPcnwLowSw, SFrac(1, 2), SSub(SOne, ParamsEps),
   SOne, SInt(2)}

\* saturations the evaluators are called with
SwVals ==
  {SInt(-1), SZero, ParamsEps, SFrac(1, 200), DefaultPcnwLowSw, SFrac(1, 2),
   SOne, SInt(2)}

\* a member that has no value yet (a Scalar member without an initializer)
\* and that no call can read before it is assigned
Unassigned == [k |-> "unassigned", sg |-> 0, n |-> <<>>, d |-> NOne]
\* a member the class does not have
NoMember == [k |-> "nomember", sg |-> 0, n |-> <<>>, d |-> NOne]

RawCls == "DynamicWaParams"
RegCls == "RegularizedDynamicWaParams"

\* EnsureFinalized::finalize()
EnsureFinalized_finalize(p) == [p EXCEPT !.finalized_ = TRUE]

\* EnsureFinalized::check(): passes when finalize() has been called
EnsureFinalized_check(p) == p.finalized_

\* DynamicWaParams::DynamicWaParams(): the coefficients are left without a
\* value; what they hold is what the memory image g holds.
DynamicWaParams_default(g) ==
  [ cls |-> RawCls, finalized_ |-> FALSE,
    pcnwLowSw_ |-> NoMember, pcnwLow_ |-> NoMember, pcnwSlopeLow_ |-> NoMember,
    pcnwHigh_ |-> NoMember, pcnwSlopeHigh_ |-> NoMember ] @@ MemoryImage(g)

\* the two-argument constructor without its call of finalize()
DynamicWaParams_init_unfinalized(ePressure, shapeParam, g) ==
  [DynamicWaParams_default(g) EXCEPT !.entryPressure_ = ePressure,
                                     !.lambda_ = shapeParam]

\* DynamicWaParams::DynamicWaParams(ePressure, shapeParam)
DynamicWaParams_init(ePressure, shapeParam, g) ==
  EnsureFinalized_finalize(
    [DynamicWaParams_default(g) EXCEPT !.entryPressure_ = ePressure,
                                       !.lambda_ = shapeParam])

\* lambda() without the call of EnsureFinalized::check()
lambda_unchecked(p) == Val(p.lambda_)

\* guarded accessors of DynamicWaParams
entryPressure(p) ==
  IF EnsureFinalized_check(p) THEN Val(p.entryPressure_) ELSE NotFinalized
finalEntryPressure(p) ==
  IF EnsureFinalized_check(p) THEN Val(p.finalEntryPressure_) ELSE NotFinalized
lambda(p) ==
  IF EnsureFinalized_check(p) THEN Val(p.lambda_) ELSE NotFinalized
llambda(p) ==
  IF EnsureFinalized_check(p) THEN Val(p.llambda_) ELSE NotFinalized

\* unguarded accessors of DynamicWaParams
beta(p) == Val(p.beta_)
eta(p) == Val(p.eta_)
ei(p) == Val(p.ei_)
ef(p) == Val(p.ef_)

\* the first outcome of the sequence (of at most four) that is a failure,
\* or the last one
FirstFailure(os) ==
  IF Len(os) = 1 \/ Failed(os[1]) THEN os[1]
  ELSE IF Len(os) = 2 \/ Failed(os[2]) THEN os[2]
  ELSE IF Len(os) = 3 \/ Failed(os[3]) THEN os[3]
  ELSE os[4]

(***************************************************************************)
(* The raw evaluator, DynamicWa.                                           *)
(***************************************************************************)
\* assert(0.0 <= Sw && Sw <= 1.0)
SwInRange(Sw) == SLe(SZero, Sw) /\ SLe(Sw, SOne)

\* (1.0 + (pef/pe - 1.0) * (Sw*Wa) / (beta + Sw*Wa)) * pe * pow(Sw, -1/lambda)
PcnwFormula(pef, pe, b, lam, Sw, Wa) ==
  Mul(Mul(Add(SOne,
              Div(Mul(Sub(Div(pef, pe), SOne), Mul(Sw, Wa)),
                  Add(b, Mul(Sw, Wa)))),
          pe),
      Pow(Sw, Div(SInt(-1), lam)))

DynamicWa_twoPhaseSatPcnw(p, Sw, Wa) ==
  IF ~SwInRange(Sw) THEN AssertFailure
  ELSE LET pef == finalEntryPressure(p)
           pe == entryPressure(p)
           b == beta(p)
           lam == lambda(p)
           g == FirstFailure(<<pef, pe, b, lam>>)
       IN  IF Failed(g) THEN g
           ELSE Val(PcnwFormula(pef.v, pe.v, b.v, lam.v, Sw, Wa))

\* min(eta*Wa + ei, ef)
ClampedCoefficient(et, e1, e2, Wa) == Min(Add(Mul(et, Wa), e1), e2)

\* C * pow(Sw, llambda) / (1.0 - Sw + C * pow(Sw, llambda))
KrwFormula(et, e1, e2, ll, Sw, Wa) ==
  Div(Mul(ClampedCoefficient(et, e1, e2, Wa), Pow(Sw, ll)),
      Add(Sub(SOne, Sw),
          Mul(ClampedCoefficient(et, e1, e2, Wa), Pow(Sw, ll))))

\* the krn expression with eta*Wa + ei in the place of min(eta*Wa + ei, ef)
KrnFormula_unclamped(et, e1, e2, ll, Sw, Wa) ==
  Div(Sub(SOne, Sw),
      Add(Sub(SOne, Sw), Mul(Add(Mul(et, Wa), e1), Pow(Sw, ll))))

\* (1 - Sw) / (1.0 - Sw + C * pow(Sw, llambda))
KrnFormula(et, e1, e2, ll, Sw, Wa) ==
  Div(Sub(SOne, Sw),
      Add(Sub(SOne, Sw),
          Mul(ClampedCoefficient(et, e1, e2, Wa), Pow(Sw, ll))))

\* twoPhaseSatKrw() without its assertion on Sw
twoPhaseSatKrw_unasserted(p, Sw, Wa) ==
  LET ll == llambda(p)
  IN  IF Failed(ll) THEN ll
      ELSE Val(KrwFormula(p.eta_, p.ei_, p.ef_, ll.v, Sw, Wa))

DynamicWa_twoPhaseSatKrw(p, Sw, Wa) ==
  IF ~SwInRange(Sw) THEN AssertFailure
  ELSE LET et == eta(p)
           e1 == ei(p)
           e2 == ef(p)
           ll == llambda(p)
           g == FirstFailure(<<et, e1, e2, ll>>)
       IN  IF Failed(g) THEN g
           ELSE Val(KrwFormula(et.v, e1.v, e2.v, ll.v, Sw, Wa))

DynamicWa_twoPhaseSatKrn(p, Sw, Wa) ==
  IF ~SwInRange(Sw) THEN AssertFailure
  ELSE LET et == eta(p)
           e1 == ei(p)
           e2 == ef(p)
           ll == llambda(p)
           g == FirstFailure(<<et, e1, e2, ll>>)
       IN  IF Failed(g) THEN g
           ELSE Val(KrnFormula(et.v, e1.v, e2.v, ll.v, Sw, Wa))

\* the fluid state of a cell with wetting saturation Sw and dynamic variable Wa
FluidState(Sw, Wa) == [satW |-> Sw, satN |-> SSub(SOne, Sw), wa |-> Wa]

DynamicWa_pcnw(p, fs) ==
  IF ~SwInRange(fs.satW) THEN AssertFailure
  ELSE DynamicWa_twoPhaseSatPcnw(p, fs.satW, fs.wa)

DynamicWa_krw(p, fs) == DynamicWa_twoPhaseSatKrw(p, fs.satW, fs.wa)

DynamicWa_krn(p, fs) == DynamicWa_twoPhaseSatKrn(p, SSub(SOne, fs.satN), fs.wa)

\* values[wettingPhaseIdx] = 0.0; values[nonWettingPhaseIdx] = pn
PhasePressures(pn) == IF Failed(pn) THEN pn ELSE Val(<<SZero, pn.v>>)

\* values[wettingPhaseIdx] = kw; values[nonWettingPhaseIdx] = kn
PhasePermeabilities(kw, kn) ==
  IF Failed(FirstFailure(<<kw, kn>>)) THEN FirstFailure(<<kw, kn>>)
  ELSE Val(<<kw.v, kn.v>>)

DynamicWa_capillaryPressures(p, fs) == PhasePressures(DynamicWa_pcnw(p, fs))

DynamicWa_relativePermeabilities(p, fs) ==
  PhasePermeabilities(DynamicWa_krw(p, fs), DynamicWa_krn(p, fs))

(***************************************************************************)
(* The regularized parameter store, RegularizedDynamicWaParams.            *)
(***************************************************************************)
\* The outcome of a computation that evaluates the raw curve several times
\* and then computes t from the values: the first failure among the outcomes
\* pc of the evaluations, in the order of the calls, or t.
FromRaw(pc, t) ==
  IF Failed(FirstFailure(pc)) THEN FirstFailure(pc) ELSE Val(t)

\* (pc2 - pc1)/delta
DifferenceQuotient(pc2, pc1, delta) == Div(Sub(pc2, pc1), delta)

\* the test of the lower step with >= in the place of >
StepsDown_closed(Sw) == SGe(SSub(Sw, ParamsEps), SZero)

\* if (Sw + eps < 1.0) and if (Sw - eps > 0.0) of dPcnw_dSw_
StepsUp(Sw) == SLt(SAdd(Sw, ParamsEps), SOne)
StepsDown(Sw) == SGt(SSub(Sw, ParamsEps), SZero)

\* delta = 0.0, then += eps in each branch taken
StencilDelta(up, down) ==
  Add(Add(SZero, IF up THEN ParamsEps ELSE SZero),
      IF down THEN ParamsEps ELSE SZero)

\* (pc2 - pc1)/delta from the outcomes pc of the two raw evaluations
Slope(pc, delta) == FromRaw(pc, DifferenceQuotient(pc[1].v, pc[2].v, delta))

\* pc2 and pc1, evaluated with wa = 0.0, and their quotient, for the
\* outcomes up and down of the two tests
Stencil(p, Sw, up, down) ==
  Slope(<<DynamicWa_twoPhaseSatPcnw(
            p, IF up THEN SAdd(Sw, ParamsEps) ELSE Sw, SZero),
          DynamicWa_twoPhaseSatPcnw(
            p, IF down THEN SSub(Sw, ParamsEps) ELSE Sw, SZero)>>,
        StencilDelta(up, down))

\* RegularizedDynamicWaParams::dPcnw_dSw_(Sw): an outcome, since the raw
\* evaluator it calls may end in an assertion failure
dPcnw_dSw_(p, Sw) == Stencil(p, Sw, StepsUp(Sw), StepsDown(Sw))

\* finalize() of the base class alone: the derived members are not computed
finalize_baseOnly(p) == [p |-> EnsureFinalized_finalize(p), out |-> Void]

\* a finalize() that adds the boundary value at Sw = 1 to the stored one
finalize_accumulating(p) ==
  LET p0 == EnsureFinalized_finalize(p)
      r3 == DynamicWa_twoPhaseSatPcnw(p0, SOne, SZero)
  IN  IF Failed(r3) THEN [p |-> p0, out |-> r3]
      ELSE [p |-> [p0 EXCEPT !.pcnwHigh_ =
                     IF @ = Unassigned THEN r3.v ELSE Add(@, r3.v)],
            out |-> Void]

\* One assignment of finalize(): the member f of the store s.p gets the value
\* of the outcome r, unless an earlier one or r itself failed.
AssignDerived(s, f, r) ==
  IF Failed(s.out) THEN s
  ELSE IF Failed(r) THEN [p |-> s.p, out |-> r]
  ELSE [p |-> [s.p EXCEPT ![f] = r.v], out |-> Void]

\* pcnwLow_ = DynamicWa::twoPhaseSatPcnw(this store, pcnwLowSw_, 0.0)
AssignPcnwLow(s) ==
  AssignDerived(s, "pcnwLow_",
                DynamicWa_twoPhaseSatPcnw(s.p, s.p.pcnwLowSw_, SZero))

\* pcnwSlopeLow_ = dPcnw_dSw_(pcnwLowSw_)
AssignPcnwSlopeLow(s) ==
  AssignDerived(s, "pcnwSlopeLow_", dPcnw_dSw_(s.p, s.p.pcnwLowSw_))

\* pcnwHigh_ = DynamicWa::twoPhaseSatPcnw(this store, 1.0, 0.0)
AssignPcnwHigh(s) ==
  AssignDerived(s, "pcnwHigh_", DynamicWa_twoPhaseSatPcnw(s.p, SOne, SZero))

\* pcnwSlopeHigh_ = dPcnw_dSw_(1.0)
AssignPcnwSlopeHigh(s) ==
  AssignDerived(s, "pcnwSlopeHigh_", dPcnw_dSw_(s.p, SOne))

\* RegularizedDynamicWaParams::finalize(): the store it leaves and its
\* outcome.  A failing assertion ends it with the members assigned so far.
RegularizedDynamicWaParams_finalize(p) ==
  AssignPcnwSlopeHigh(
    AssignPcnwHigh(
      AssignPcnwSlopeLow(
        AssignPcnwLow([p |-> EnsureFinalized_finalize(p), out |-> Void]))))

\* finalize() of the class of the store
Finalized(p) ==
  IF p.cls = RegCls THEN RegularizedDynamicWaParams_finalize(p)
  ELSE [p |-> EnsureFinalized_finalize(p), out |-> Void]

\* RegularizedDynamicWaParams::RegularizedDynamicWaParams()
RegularizedDynamicWaParams_default(g) ==
  [DynamicWaParams_default(g) EXCEPT
     !.cls = RegCls, !.pcnwLowSw_ = DefaultPcnwLowSw,
     !.pcnwLow_ = Unassigned, !.pcnwSlopeLow_ = Unassigned,
     !.pcnwHigh_ = Unassigned, !.pcnwSlopeHigh_ = Unassigned]

\* RegularizedDynamicWaParams::RegularizedDynamicWaParams(entryPressure, lambda)
RegularizedDynamicWaParams_init(ePressure, shapeParam, g) ==
  RegularizedDynamicWaParams_finalize(
    [DynamicWaParams_init(ePressure, shapeParam, g) EXCEPT
       !.cls = RegCls, !.pcnwLowSw_ = DefaultPcnwLowSw,
       !.pcnwLow_ = Unassigned, !.pcnwSlopeLow_ = Unassigned,
       !.pcnwHigh_ = Unassigned, !.pcnwSlopeHigh_ = Unassigned])

\* guarded accessors of RegularizedDynamicWaParams
pcnwLowSw(p) ==
  IF EnsureFinalized_check(p) THEN Val(p.pcnwLowSw_) ELSE NotFinalized
pcnwLow(p) ==
  IF EnsureFinalized_check(p) THEN Val(p.pcnwLow_) ELSE NotFinalized
pcnwSlopeLow(p) ==
  IF EnsureFinalized_check(p) THEN Val(p.pcnwSlopeLow_) ELSE NotFinalized
pcnwHigh(p) ==
  IF EnsureFinalized_check(p) THEN Val(p.pcnwHigh_) ELSE NotFinalized
pcnwSlopeHigh(p) ==
  IF EnsureFinalized_check(p) THEN Val(p.pcnwSlopeHigh_) ELSE NotFinalized

(***************************************************************************)
(* The regularized evaluator, RegularizedDynamicWa.                        *)
(***************************************************************************)
\* pcnw_SwLow + m*(Sw - Sthres) with m = (pc2 - pc1)/delta, delta = 0.0 + eps + eps
LowExtrapolation(pcnw_SwLow, pc2, pc1, Sw, Sthres) ==
  Add(pcnw_SwLow,
      Mul(Div(Sub(pc2, pc1), Add(Add(SZero, EvalEps), EvalEps)),
          Sub(Sw, Sthres)))

\* pcnw_SwHigh + m*(Sw - 1.0) with m = (pc2 - pc1)/delta, delta = 0.0 + eps
HighExtrapolation(pcnw_SwHigh, pc2, pc1, Sw) ==
  Add(pcnw_SwHigh,
      Mul(Div(Sub(pc2, pc1), Add(SZero, EvalEps)), Sub(Sw, SOne)))

\* the branch Sw <= Sthres, were it to extrapolate from the stored boundary
\* value and slope
PcnwLowBranch_stored(p, Sthres, Sw, Wa) ==
  FromRaw(<<pcnwLow(p), pcnwSlopeLow(p)>>,
          Add(pcnwLow(p).v, Mul(pcnwSlopeLow(p).v, Sub(Sw, Sthres))))

\* the extrapolations from the outcomes pc of the raw evaluations of
\* pcnw_SwLow (pcnw_SwHigh), pc2 and pc1
LowLine(pc, Sw, Sthres) ==
  FromRaw(pc, LowExtrapolation(pc[1].v, pc[2].v, pc[3].v, Sw, Sthres))

HighLine(pc, Sw) ==
  FromRaw(pc, HighExtrapolation(pc[1].v, pc[2].v, pc[3].v, Sw))

\* the branch Sw <= Sthres of twoPhaseSatPcnw
PcnwLowBranch(p, Sthres, Sw, Wa) ==
  LowLine(<<DynamicWa_twoPhaseSatPcnw(p, Sthres, Wa),
            DynamicWa_twoPhaseSatPcnw(p, SAdd(Sthres, EvalEps), Wa),
            DynamicWa_twoPhaseSatPcnw(p, SSub(Sthres, EvalEps), Wa)>>,
          Sw, Sthres)

\* the branch Sw >= 1.0 with the slope taken over [1 - eps, 1 + eps]
PcnwHighBranch_central(p, Sw, Wa) ==
  HighLine(<<DynamicWa_twoPhaseSatPcnw(p, SOne, Wa),
             DynamicWa_twoPhaseSatPcnw(p, SAdd(SOne, EvalEps), Wa),
             DynamicWa_twoPhaseSatPcnw(p, SSub(SOne, EvalEps), Wa)>>,
           Sw)

\* the branch Sw >= 1.0 of twoPhaseSatPcnw
PcnwHighBranch(p, Sw, Wa) ==
  HighLine(<<DynamicWa_twoPhaseSatPcnw(p, SOne, Wa),
             DynamicWa_twoPhaseSatPcnw(p, SOne, Wa),
             DynamicWa_twoPhaseSatPcnw(p, SSub(SOne, EvalEps), Wa)>>,
           Sw)

\* twoPhaseSatPcnw() with the test Sw <= Sthres replaced by Sw < 1.0
twoPhaseSatPcnw_noMidRegion(p, Sw, Wa) ==
  LET Sthres == pcnwLowSw(p)
  IN  IF Failed(Sthres) THEN Sthres
      ELSE IF SLt(Sw, SOne) THEN PcnwLowBranch(p, Sthres.v, Sw, Wa)
      ELSE PcnwHighBranch(p, Sw, Wa)

RegularizedDynamicWa_twoPhaseSatPcnw(p, Sw, Wa) ==
  LET Sthres == pcnwLowSw(p)
  IN  IF Failed(Sthres) THEN Sthres
      ELSE IF SLe(Sw, Sthres.v) THEN PcnwLowBranch(p, Sthres.v, Sw, Wa)
      ELSE IF SGe(Sw, SOne) THEN PcnwHighBranch(p, Sw, Wa)
      ELSE DynamicWa_twoPhaseSatPcnw(p, Sw, Wa)

\* twoPhaseSatKrw() without the two clamps
twoPhaseSatKrw_unclamped(p, Sw, Wa) == DynamicWa_twoPhaseSatKrw(p, Sw, Wa)

RegularizedDynamicWa_twoPhaseSatKrw(p, Sw, Wa) ==
  IF SLe(Sw, SZero) THEN Val(SZero)
  ELSE IF SGe(Sw, SOne) THEN Val(SOne)
  ELSE DynamicWa_twoPhaseSatKrw(p, Sw, Wa)

RegularizedDynamicWa_twoPhaseSatKrn(p, Sw, Wa) ==
  IF SGe(Sw, SOne) THEN Val(SZero)
  ELSE IF SLe(Sw, SZero) THEN Val(SOne)
  ELSE DynamicWa_twoPhaseSatKrn(p, Sw, Wa)

RegularizedDynamicWa_pcnw(p, fs) ==
  RegularizedDynamicWa_twoPhaseSatPcnw(p, fs.satW, fs.wa)

RegularizedDynamicWa_krw(p, fs) ==
  RegularizedDynamicWa_twoPhaseSatKrw(p, fs.satW, fs.wa)

RegularizedDynamicWa_krn(p, fs) ==
  RegularizedDynamicWa_twoPhaseSatKrn(p, SSub(SOne, fs.satN), fs.wa)

RegularizedDynamicWa_capillaryPressures(p, fs) ==
  PhasePressures(RegularizedDynamicWa_pcnw(p, fs))

RegularizedDynamicWa_relativePermeabilities(p, fs) ==
  PhasePermeabilities(RegularizedDynamicWa_krw(p, fs),
                      RegularizedDynamicWa_krn(p, fs))

(***************************************************************************)
(* The client.  params is the one parameter store of the run, fluidState   *)
(* the state the curves are evaluated for, last the latest call with its   *)
(* arguments and outcome, nset the number of setter calls made.  A call    *)
(* that ends fatally ends the run.  threads holds the calls in flight of   *)
(* the threads of a client that has any; this client has none.             *)
(***************************************************************************)
Alive == ~Failed(last.out)

NoThreads == <<>>

Constructed(op, args, r) ==
  /\ params = r.p
  /\ last = [op |-> op, args |-> args, out |-> r.out]
  /\ nset = 0
  /\ threads = NoThreads

InitDefault(G) ==
  \E g \in G :
     \/ Constructed("DynamicWaParams()", <<>>,
                    [p |-> DynamicWaParams_default(g), out |-> Void])
     \/ Constructed("RegularizedDynamicWaParams()", <<>>,
                    [p |-> RegularizedDynamicWaParams_default(g), out |-> Void])

InitParameterized ==
  \E g \in Images, q \in Profiles :
     LET ePressure == Profile(q).entryPressure_
         shapeParam == Profile(q).lambda_
     IN  \/ Constructed("DynamicWaParams(ePressure, shapeParam)",
                        <<ePressure, shapeParam>>,
                        [p |-> DynamicWaParams_init(ePressure, shapeParam, g),
                         out |-> Void])
         \/ Constructed("RegularizedDynamicWaParams(entryPressure, lambda)",
                        <<ePressure, shapeParam>>,
                        RegularizedDynamicWaParams_init(ePressure, shapeParam, g))

\* a setter that also withdraws the finalized flag
AssignAndInvalidate(p, f, v) == [p EXCEPT ![f] = v, !.finalized_ = FALSE]

\* a setter: the member it assigns and the value
Assign(p, f, v) == [p EXCEPT ![f] = v]

Setter(op, f, v) ==
  /\ Alive
  /\ params' = Assign(params, f, v)
  /\ last' = [op |-> op, args |-> <<v>>, out |-> Void]
  /\ UNCHANGED <<fluidState, threads>>

setEntryPressure(v) == Setter("setEntryPressure", "entryPressure_", v)
setFinalEntryPressure(v) == Setter("setFinalEntryPressure", "finalEntryPressure_", v)
setLambda(v) == Setter("setLambda", "lambda_", v)
setLlambda(v) == Setter("setLlambda", "llambda_", v)
setBeta(v) == Setter("setBeta", "beta_", v)
setEta(v) == Setter("setEta", "eta_", v)
setEi(v) == Setter("setEi", "ei_", v)
setEf(v) == Setter("setEf", "ef_", v)
setPcLowSw(v) == params.cls = RegCls /\ Setter("setPcLowSw", "pcnwLowSw_", v)

finalize ==
  /\ Alive
  /\ LET r == Finalized(params)
     IN  /\ params' = r.p
         /\ last' = [op |-> "finalize", args |-> <<>>, out |-> r.out]
  /\ UNCHANGED <<fluidState, nset, threads>>

\* a call that finalizes the store it is given
FinalizingCall(op, args, out) ==
  /\ Alive
  /\ last' = [op |-> op, args |-> args, out |-> out]
  /\ params' = EnsureFinalized_finalize(params)
  /\ UNCHANGED <<fluidState, nset, threads>>

\* a call that takes the store and the fluid state by const reference
ConstCall(op, args, out) ==
  /\ Alive
  /\ last' = [op |-> op, args |-> args, out |-> out]
  /\ UNCHANGED <<params, fluidState, nset, threads>>

GuardedAccessors == {"entryPressure", "finalEntryPressure", "lambda", "llambda"}
UnguardedAccessors == {"beta", "eta", "ei", "ef"}
RegularizedAccessors ==
  {"pcnwLowSw", "pcnwLow", "pcnwSlopeLow", "pcnwHigh", "pcnwSlopeHigh"}
Accessors == GuardedAccessors \cup UnguardedAccessors \cup RegularizedAccessors

\* the accessor named a, applied to p
Accessor(a, p) ==
  CASE a = "entryPressure" -> entryPressure(p)
    [] a = "finalEntryPressure" -> finalEntryPressure(p)
    [] a = "lambda" -> lambda(p)
    [] a = "llambda" -> llambda(p)
    [] a = "beta" -> beta(p)
    [] a = "eta" -> eta(p)
    [] a = "ei" -> ei(p)
    [] a = "ef" -> ef(p)
    [] a = "pcnwLowSw" -> pcnwLowSw(p)
    [] a = "pcnwLow" -> pcnwLow(p)
    [] a = "pcnwSlopeLow" -> pcnwSlopeLow(p)
    [] a = "pcnwHigh" -> pcnwHigh(p)
    [] a = "pcnwSlopeHigh" -> pcnwSlopeHigh(p)

Read(a) ==
  /\ a \in RegularizedAccessors => params.cls = RegCls
  /\ ConstCall(a, <<>>, Accessor(a, params))

\* the entry points of the raw evaluator
RawTwoPhaseSatPcnw ==
  ConstCall("DynamicWa::twoPhaseSatPcnw", <<fluidState.satW, fluidState.wa>>,
            DynamicWa_twoPhaseSatPcnw(params, fluidState.satW, fluidState.wa))
RawTwoPhaseSatKrw ==
  ConstCall("DynamicWa::twoPhaseSatKrw", <<fluidState.satW, fluidState.wa>>,
            DynamicWa_twoPhaseSatKrw(params, fluidState.satW, fluidState.wa))
RawTwoPhaseSatKrn ==
  ConstCall("DynamicWa::twoPhaseSatKrn", <<fluidState.satW, fluidState.wa>>,
            DynamicWa_twoPhaseSatKrn(params, fluidState.satW, fluidState.wa))
RawPcnw == ConstCall("DynamicWa::pcnw", <<fluidState>>, DynamicWa_pcnw(params, fluidState))
RawKrw == ConstCall("DynamicWa::krw", <<fluidState>>, DynamicWa_krw(params, fluidState))
RawKrn == ConstCall("DynamicWa::krn", <<fluidState>>, DynamicWa_krn(params, fluidState))
RawCapillaryPressures ==
  ConstCall("DynamicWa::capillaryPressures", <<fluidState>>,
            DynamicWa_capillaryPressures(params, fluidState))
RawRelativePermeabilities ==
  ConstCall("DynamicWa::relativePermeabilities", <<fluidState>>,
            DynamicWa_relativePermeabilities(params, fluidState))

\* the entry points of the regularized evaluator
RegTwoPhaseSatPcnw ==
  /\ params.cls = RegCls
  /\ ConstCall("RegularizedDynamicWa::twoPhaseSatPcnw", <<fluidState.satW, fluidState.wa>>,
               RegularizedDynamicWa_twoPhaseSatPcnw(params, fluidState.satW, fluidState.wa))
RegTwoPhaseSatKrw ==
  /\ params.cls = RegCls
  /\ ConstCall("RegularizedDynamicWa::twoPhaseSatKrw", <<fluidState.satW, fluidState.wa>>,
               RegularizedDynamicWa_twoPhaseSatKrw(params, fluidState.satW, fluidState.wa))
RegTwoPhaseSatKrn ==
  /\ params.cls = RegCls
  /\ ConstCall("RegularizedDynamicWa::twoPhaseSatKrn", <<fluidState.satW, fluidState.wa>>,
               RegularizedDynamicWa_twoPhaseSatKrn(params, fluidState.satW, fluidState.wa))
RegPcnw ==
  /\ params.cls = RegCls
  /\ ConstCall("RegularizedDynamicWa::pcnw", <<fluidState>>,
               RegularizedDynamicWa_pcnw(params, fluidState))
RegKrw ==
  /\ params.cls = RegCls
  /\ ConstCall("RegularizedDynamicWa::krw", <<fluidState>>,
               RegularizedDynamicWa_krw(params, fluidState))
RegKrn ==
  /\ params.cls = RegCls
  /\ ConstCall("RegularizedDynamicWa::krn", <<fluidState>>,
               RegularizedDynamicWa_krn(params, fluidState))
RegCapillaryPressures ==
  /\ params.cls = RegCls
  /\ ConstCall("RegularizedDynamicWa::capillaryPressures", <<fluidState>>,
               RegularizedDynamicWa_capillaryPressures(params, fluidState))
RegRelativePermeabilities ==
  /\ params.cls = RegCls
  /\ ConstCall("RegularizedDynamicWa::relativePermeabilities", <<fluidState>>,
               RegularizedDynamicWa_relativePermeabilities(params, fluidState))

(***************************************************************************)
(* Spec: the client that constructs, sets up and reads a store.  It makes  *)
(* at most MaxSetterCalls setter calls.                                    *)
(***************************************************************************)
Init ==
  /\ InitDefault(Images) \/ InitParameterized
  /\ fluidState = FluidState(SFrac(1, 2), SZero)

SetterCall ==
  \/ \E v \in SetterVals("entryPressure_") : setEntryPressure(v)
  \/ \E v \in SetterVals("finalEntryPressure_") : setFinalEntryPressure(v)
  \/ \E v \in SetterVals("lambda_") : setLambda(v)
  \/ \E v \in SetterVals("llambda_") : setLlambda(v)
  \/ \E v \in SetterVals("beta_") : setBeta(v)
  \/ \E v \in SetterVals("eta_") : setEta(v)
  \/ \E v \in SetterVals("ei_") : setEi(v)
  \/ \E v \in SetterVals("ef_") : setEf(v)
  \/ \E v \in ThresholdVals : setPcLowSw(v)

Next ==
  \/ nset < MaxSetterCalls /\ nset' = nset + 1 /\ SetterCall
  \/ finalize
  \/ \E a \in Accessors : Read(a)

Spec == Init /\ [][Next]_vars

(***************************************************************************)
(* SpecEval: the client that evaluates the curves for one fluid state, on  *)
(* a store whose coefficients are those of a profile and whose threshold   *)
(* it may change.                                                          *)
(***************************************************************************)
InitEval ==
  /\ InitDefault(Profiles)
  /\ \E Sw \in SwVals, Wa \in WaVals : fluidState = FluidState(Sw, Wa)

NextEval ==
  \/ \E v \in ThresholdVals : setPcLowSw(v) /\ UNCHANGED nset
  \/ finalize
  \/ RawTwoPhaseSatPcnw
  \/ RawTwoPhaseSatKrw
  \/ RawTwoPhaseSatKrn
  \/ RawPcnw
  \/ RawKrw
  \/ RawKrn
  \/ RawCapillaryPressures
  \/ RawRelativePermeabilities
  \/ RegTwoPhaseSatPcnw
  \/ RegTwoPhaseSatKrw
  \/ RegTwoPhaseSatKrn
  \/ RegPcnw
  \/ RegKrw
  \/ RegKrn
  \/ RegCapillaryPressures
  \/ RegRelativePermeabilities

SpecEval == InitEval /\ [][NextEval]_vars

(***************************************************************************)
(* Properties.                                                             *)
(***************************************************************************)
RegTwoPhaseSatPcnwOp == "RegularizedDynamicWa::twoPhaseSatPcnw"

\* the outcomes a and b are the same failure or the same number
SameOutcome(a, b) ==
  /\ a.kind = b.kind
  /\ a.kind = "val" => SSame(a.v, b.v)

\* the derived members of p are what finalize() computes from its coefficients
Fresh(p) == p.finalized_ /\ Finalized(p) = [p |-> p, out |-> Void]

\* C1: a guarded accessor called on a store that was never finalized fails
\* fatally, whatever setters were called; on a finalized store it succeeds
\* and returns the member it names, which for an independent coefficient is
\* the value its setter stored last.
C1_FinalizeBeforeUse ==
  LET member == [a \in GuardedAccessors \cup RegularizedAccessors |->
                   CASE a = "entryPressure" -> "entryPressure_"
                     [] a = "finalEntryPressure" -> "finalEntryPressure_"
                     [] a = "lambda" -> "lambda_"
                     [] a = "llambda" -> "llambda_"
                     [] a = "pcnwLowSw" -> "pcnwLowSw_"
                     [] a = "pcnwLow" -> "pcnwLow_"
                     [] a = "pcnwSlopeLow" -> "pcnwSlopeLow_"
                     [] a = "pcnwHigh" -> "pcnwHigh_"
                     [] a = "pcnwSlopeHigh" -> "pcnwSlopeHigh_"]
  IN  last.op \in DOMAIN member =>
        IF params.finalized_
        THEN last.out = Val(params[member[last.op]])
        ELSE last.out = NotFinalized

\* C1, reached: lambda() fails on a never-finalized store after a setter call
C1_Witness ==
  /\ ~params.finalized_
  /\ nset = 1
  /\ last.op = "lambda"
  /\ last.out = NotFinalized

C3_HardClamps ==
  LET Sw == fluidState.satW
      clamped(lo, hi) ==
        /\ SLe(Sw, SZero) => last.out = Val(lo)
        /\ SGe(Sw, SOne) => last.out = Val(hi)
  IN  /\ last.op \in {"RegularizedDynamicWa::twoPhaseSatKrw",
                      "RegularizedDynamicWa::krw"} => clamped(SZero, SOne)
      /\ last.op \in {"RegularizedDynamicWa::twoPhaseSatKrn",
                      "RegularizedDynamicWa::krn"} => clamped(SOne, SZero)
      /\ last.op = "RegularizedDynamicWa::relativePermeabilities"
           => clamped(<<SZero, SOne>>, <<SOne, SZero>>)

\* C3, reached: krn at Sw = 2 on a store that was never finalized, where a
\* call of the raw evaluator would have failed
C3_Witness ==
  /\ last.op = "RegularizedDynamicWa::twoPhaseSatKrn"
  /\ ~params.finalized_
  /\ fluidState.satW = SInt(2)
  /\ last.out = Val(SZero)

\* C4: on a finalized regularized store, for threshold < Sw < 1 the
\* regularized capillary pressure is the outcome of the raw evaluator at
\* the same (Sw, Wa), and for 0 < Sw < 1 the regularized krw and krn are
\* the outcomes of the raw krw and krn.
C4_MidRegionPassthrough ==
  LET Sw == fluidState.satW
      Wa == fluidState.wa
  IN  params.finalized_ =>
        /\ (last.op = RegTwoPhaseSatPcnwOp
              /\ SLt(params.pcnwLowSw_, Sw) /\ SLt(Sw, SOne))
             => last.out = DynamicWa_twoPhaseSatPcnw(params, Sw, Wa)
        /\ (last.op = "RegularizedDynamicWa::twoPhaseSatKrw"
              /\ SLt(SZero, Sw) /\ SLt(Sw, SOne))
             => last.out = DynamicWa_twoPhaseSatKrw(params, Sw, Wa)
        /\ (last.op = "RegularizedDynamicWa::twoPhaseSatKrn"
              /\ SLt(SZero, Sw) /\ SLt(Sw, SOne))
             => last.out = DynamicWa_twoPhaseSatKrn(params, Sw, Wa)

\* C4, reached: a capillary pressure between the threshold and 1 with Wa # 0
C4_Witness ==
  /\ last.op = RegTwoPhaseSatPcnwOp
  /\ params.finalized_
  /\ SLt(params.pcnwLowSw_, fluidState.satW)
  /\ SLt(fluidState.satW, SOne)
  /\ fluidState.wa # SZero
  /\ IsVal(last.out)

\* C5 as stated, for the calls that return: on a finalized regularized
\* store the regularized capillary pressure at Sw = threshold is the raw
\* capillary pressure at (threshold, Wa), and at Sw = 1 the raw capillary
\* pressure at (1, Wa).
C5_ContinuityAtBoundaries ==
  LET Sw == fluidState.satW
      Wa == fluidState.wa
  IN  (last.op = RegTwoPhaseSatPcnwOp /\ params.finalized_ /\ IsVal(last.out)
         /\ (Sw = params.pcnwLowSw_ \/ Sw = SOne))
        => SameOutcome(last.out, DynamicWa_twoPhaseSatPcnw(params, Sw, Wa))

\* C6: after a finalize() of a regularized store that returns (called by
\* the client or by the two-argument constructor), pcnwLow_ is the raw
\* capillary pressure at (threshold, 0), pcnwHigh_ the one at (1, 0), and
\* the two slopes are the difference quotients of the raw curve with Wa = 0
\* at the threshold and at 1 (central where both neighbours at distance eps
\* are strictly inside (0, 1), one-sided otherwise), all for the coefficients
\* and the threshold the store holds now.
C6_FinalizeRecomputes ==
  LET t == params.pcnwLowSw_
      raw(x) == DynamicWa_twoPhaseSatPcnw(params, x, SZero).v
      up(x) == SLt(SAdd(x, ParamsEps), SOne)
      down(x) == SGt(SSub(x, ParamsEps), SZero)
      slope(x) ==
        IF up(x) /\ down(x)
        THEN SDiv(SSub(raw(SAdd(x, ParamsEps)), raw(SSub(x, ParamsEps))),
                  SAdd(ParamsEps, ParamsEps))
        ELSE IF up(x)
        THEN SDiv(SSub(raw(SAdd(x, ParamsEps)), raw(x)), ParamsEps)
        ELSE IF down(x)
        THEN SDiv(SSub(raw(x), raw(SSub(x, ParamsEps))), ParamsEps)
        ELSE SDiv(SSub(raw(x), raw(x)), SZero)
  IN  (/\ params.cls = RegCls
       /\ last.op \in {"finalize",
                       "RegularizedDynamicWaParams(entryPressure, lambda)"}
       /\ last.out = Void)
        => /\ SSame(params.pcnwLow_, raw(t))
           /\ SSame(params.pcnwSlopeLow_, slope(t))
           /\ SSame(params.pcnwHigh_, raw(SOne))
           /\ SSame(params.pcnwSlopeHigh_, slope(SOne))

\* C6, reached: a store built by the two-argument constructor (which
\* finalizes it), then given the threshold 1/2, then finalized again
C6_Witness ==
  /\ params.cls = RegCls
  /\ last.op = "finalize"
  /\ last.out = Void
  /\ nset = 1
  /\ params.pcnwLowSw_ = SFrac(1, 2)
  /\ params.entryPressure_ = Profile(2).entryPressure_
  /\ params.beta_ = Profile(1).beta_

\* C7: a finalize() that follows a finalize() that returned leaves the
\* whole store (derived values, threshold, coefficients, flag) as it is.
C7_FinalizeIdempotent ==
  (last.op = "finalize" /\ last.out = Void)
    => Finalized(params) = [p |-> params, out |-> Void]

\* C7, reached: a regularized store just finalized with a threshold other
\* than the default one
C7_Witness ==
  /\ params.cls = RegCls
  /\ last.op = "finalize"
  /\ last.out = Void
  /\ params.pcnwLowSw_ = ParamsEps

\* C8: a setter call returns for every value and changes the member it
\* names to that value and nothing else of the store: not another
\* coefficient, not the finalized flag, not a derived value.
C8_SettersPureMutators ==
  [][nset' # nset =>
       LET member ==
             [ setEntryPressure |-> "entryPressure_",
               setFinalEntryPressure |-> "finalEntryPressure_",
               setLambda |-> "lambda_", setLlambda |-> "llambda_",
               setBeta |-> "beta_", setEta |-> "eta_", setEi |-> "ei_",
               setEf |-> "ef_", setPcLowSw |-> "pcnwLowSw_" ]
       IN  /\ last'.op \in DOMAIN member
           /\ last'.out = Void
           /\ params' = [params EXCEPT ![member[last'.op]] = last'.args[1]]
           /\ fluidState' = fluidState]_vars

\* C8, reached: a coefficient set after finalize(), the derived values
\* still those of the coefficients before
C8_Witness ==
  /\ params.cls = RegCls
  /\ last.op = "setEntryPressure"
  /\ params.finalized_
  /\ params.pcnwHigh_ # Unassigned
  /\ ~SSame(params.pcnwHigh_, params.entryPressure_)

\* the entry points of the two evaluators, by the name the client records
EvaluatorOps ==
  { c \o "::" \o f :
      c \in {"DynamicWa", "RegularizedDynamicWa"},
      f \in {"capillaryPressures", "relativePermeabilities", "pcnw",
             "twoPhaseSatPcnw", "krw", "twoPhaseSatKrw", "krn",
             "twoPhaseSatKrn"} }

\* the outcome of the entry point op for the store p and the fluid state fs
Evaluate(op, p, fs) ==
  CASE op = "DynamicWa::capillaryPressures" -> DynamicWa_capillaryPressures(p, fs)
    [] op = "DynamicWa::relativePermeabilities" ->
         DynamicWa_relativePermeabilities(p, fs)
    [] op = "DynamicWa::pcnw" -> DynamicWa_pcnw(p, fs)
    [] op = "DynamicWa::twoPhaseSatPcnw" ->
         DynamicWa_twoPhaseSatPcnw(p, fs.satW, fs.wa)
    [] op = "DynamicWa::krw" -> DynamicWa_krw(p, fs)
    [] op = "DynamicWa::twoPhaseSatKrw" ->
         DynamicWa_twoPhaseSatKrw(p, fs.satW, fs.wa)
    [] op = "DynamicWa::krn" -> DynamicWa_krn(p, fs)
    [] op = "DynamicWa::twoPhaseSatKrn" ->
         DynamicWa_twoPhaseSatKrn(p, fs.satW, fs.wa)
    [] op = "RegularizedDynamicWa::capillaryPressures" ->
         RegularizedDynamicWa_capillaryPressures(p, fs)
    [] op = "RegularizedDynamicWa::relativePermeabilities" ->
         RegularizedDynamicWa_relativePermeabilities(p, fs)
    [] op = "RegularizedDynamicWa::pcnw" -> RegularizedDynamicWa_pcnw(p, fs)
    [] op = "RegularizedDynamicWa::twoPhaseSatPcnw" ->
         RegularizedDynamicWa_twoPhaseSatPcnw(p, fs.satW, fs.wa)
    [] op = "RegularizedDynamicWa::krw" -> RegularizedDynamicWa_krw(p, fs)
    [] op = "RegularizedDynamicWa::twoPhaseSatKrw" ->
         RegularizedDynamicWa_twoPhaseSatKrw(p, fs.satW, fs.wa)
    [] op = "RegularizedDynamicWa::krn" -> RegularizedDynamicWa_krn(p, fs)
    [] op = "RegularizedDynamicWa::twoPhaseSatKrn" ->
         RegularizedDynamicWa_twoPhaseSatKrn(p, fs.satW, fs.wa)

\* C9: a call of an evaluator entry point leaves every member of the store
\* and the fluid state as they were, and its outcome is the one the same
\* entry point gives when applied again to the store and the fluid state
\* it left.
C9_EvaluatorsDoNotMutate ==
  /\ [](last.op \in EvaluatorOps => last.out = Evaluate(last.op, params, fluidState))
  /\ [][last'.op \in EvaluatorOps =>
          (params' = params /\ fluidState' = fluidState)]_vars

\* C9, reached: both relative permeabilities evaluated at Sw = 1/2 with
\* Wa # 0 on a finalized store
C9_Witness ==
  /\ last.op = "RegularizedDynamicWa::relativePermeabilities"
  /\ IsVal(last.out)
  /\ params.finalized_
  /\ fluidState.satW = SFrac(1, 2)
  /\ fluidState.wa # SZero

\* C10: each of the raw twoPhaseSatPcnw, twoPhaseSatKrw, twoPhaseSatKrn and
\* of pcnw, krw, krn ends in an assertion failure exactly when Sw < 0 or
\* Sw > 1, and after that failure the client makes no further call.
C10_RawSaturationAssertion ==
  LET RawOps == {"DynamicWa::twoPhaseSatPcnw", "DynamicWa::twoPhaseSatKrw",
                 "DynamicWa::twoPhaseSatKrn", "DynamicWa::pcnw",
                 "DynamicWa::krw", "DynamicWa::krn"}
      Sw == fluidState.satW
  IN  last.op \in RawOps =>
        /\ last.out = AssertFailure <=> (SLt(Sw, SZero) \/ SGt(Sw, SOne))
        /\ last.out = AssertFailure => ~ENABLED NextEval

\* C10, reached: krn of a fluid state with Sw = 2 ends in the assertion
\* failure, on a finalized store
C10_Witness ==
  /\ last.op = "DynamicWa::krn"
  /\ fluidState.satW = SInt(2)
  /\ params.finalized_
  /\ last.out = AssertFailure

DefaultConstructors == {"DynamicWaParams()", "RegularizedDynamicWaParams()"}
ParameterizedConstructors ==
  {"DynamicWaParams(ePressure, shapeParam)",
   "RegularizedDynamicWaParams(entryPressure, lambda)"}

\* C11: when a default constructor returns, the store is not finalized and
\* each guarded accessor fails; when a two-argument constructor returns, the
\* store is finalized and entryPressure() and lambda() return the two
\* arguments; when either constructor of the regularized store returns, the
\* threshold is 0.01.
C11_ConstructionPaths ==
  /\ last.op \in DefaultConstructors =>
        /\ ~params.finalized_
        /\ \A a \in GuardedAccessors : Accessor(a, params) = NotFinalized
        /\ params.cls = RegCls =>
              \A a \in RegularizedAccessors : Accessor(a, params) = NotFinalized
  /\ last.op \in ParameterizedConstructors =>
        /\ last.out = Void
        /\ params.finalized_
        /\ entryPressure(params) = Val(last.args[1])
        /\ lambda(params) = Val(last.args[2])
  /\ (last.op \in DefaultConstructors \cup ParameterizedConstructors
        /\ params.cls = RegCls)
       => params.pcnwLowSw_ = SFrac(1, 100)

\* C11, reached: a raw store built from an entry pressure and a lambda that
\* differ from what its memory held
C11_Witness ==
  /\ last.op = "DynamicWaParams(ePressure, shapeParam)"
  /\ params.cls = RawCls
  /\ params.finalized_
  /\ \E g \in Profiles :
       /\ last.args = <<Profile(g).entryPressure_, Profile(g).lambda_>>
       /\ params.finalEntryPressure_ # Profile(g).finalEntryPressure_

\* C13 as stated, for the calls that return: on a finalized regularized
\* store, the regularized capillary pressure at an Sw below the threshold is
\* at least the regularized capillary pressure at the threshold for the
\* same Wa.
C13_LowExtrapolationSign ==
  LET t == params.pcnwLowSw_
      Sw == fluidState.satW
      atThreshold == RegularizedDynamicWa_twoPhaseSatPcnw(params, t, fluidState.wa)
  IN  (last.op = RegTwoPhaseSatPcnwOp /\ params.finalized_ /\ SLt(Sw, t)
         /\ IsVal(last.out))
        => /\ IsVal(atThreshold)
           /\ SGe(Eval(last.out.v), Eval(atThreshold.v))

\* The parts of a stored slope (pc2 - pc1)/delta: the saturations pc2 and pc1
\* were computed at, and the value of delta.
UpperPoint(q) == q.a.a.b.a
LowerPoint(q) == q.a.b.a.b.a
Divisor(q) == Eval(q.b)

\* a finalize() of a regularized store has just returned
AfterFinalize ==
  /\ params.cls = RegCls
  /\ last.op \in {"finalize", "RegularizedDynamicWaParams(entryPressure, lambda)"}
  /\ last.out = Void

\* the stored slopes with the saturations they are taken at
StoredSlopes ==
  { <<params.pcnwLowSw_, params.pcnwSlopeLow_>>, <<SOne, params.pcnwSlopeHigh_>> }

\* C14 (as amended): after finalize(), each stored slope, taken at x (the
\* threshold or 1, inside [0, 1]), is (pc(hi) - pc(lo)) / (hi - lo) of the
\* raw curve with Wa = 0, where hi = x + eps if x + eps < 1 and x otherwise,
\* lo = x - eps if x - eps > 0 and x otherwise: the symmetric difference over
\* 2 eps exactly when eps < x < 1 - eps, a one-sided difference over eps
\* otherwise, also at x = eps and x = 1 - eps where the step would stay
\* inside [0, 1].  hi and lo are inside [0, 1] and the divisor is not 0.
C14_StencilAtFinalize ==
  AfterFinalize =>
    \A s \in StoredSlopes :
       LET x == s[1]
           q == s[2]
           hi == IF SLt(SAdd(x, ParamsEps), SOne) THEN SAdd(x, ParamsEps) ELSE x
           lo == IF SGt(SSub(x, ParamsEps), SZero) THEN SSub(x, ParamsEps) ELSE x
           pc(y) == DynamicWa_twoPhaseSatPcnw(params, y, SZero).v
       IN  /\ SwInRange(x)
           /\ UpperPoint(q) = hi
           /\ LowerPoint(q) = lo
           /\ SwInRange(hi) /\ SwInRange(lo)
           /\ Divisor(q) = SSub(hi, lo)
           /\ Divisor(q) \in {ParamsEps, SAdd(ParamsEps, ParamsEps)}
           /\ Divisor(q) = SAdd(ParamsEps, ParamsEps)
                <=> (SLt(ParamsEps, x) /\ SLt(x, SSub(SOne, ParamsEps)))
           /\ SSame(q, SDiv(SSub(pc(hi), pc(lo)), SSub(hi, lo)))

\* C14, reached: a store finalized with the threshold eps, its low slope a
\* one-sided difference over eps
C14_Witness ==
  /\ AfterFinalize
  /\ params.pcnwLowSw_ = ParamsEps
  /\ LowerPoint(params.pcnwSlopeLow_) = ParamsEps
  /\ Divisor(params.pcnwSlopeLow_) = ParamsEps

\* C14 as stated: after finalize(), each stored slope is the symmetric
\* difference over 2 eps whenever x + eps and x - eps are both inside
\* [0, 1], and one-sided only on a side where the step would leave [0, 1].
C14_StencilClosedInterval ==
  AfterFinalize =>
    \A s \in StoredSlopes :
       LET x == s[1]
           q == s[2]
           hi == IF SLe(SAdd(x, ParamsEps), SOne) THEN SAdd(x, ParamsEps) ELSE x
           lo == IF SGe(SSub(x, ParamsEps), SZero) THEN SSub(x, ParamsEps) ELSE x
       IN  /\ UpperPoint(q) = hi
           /\ LowerPoint(q) = lo
           /\ Divisor(q) = SSub(hi, lo)

\* the denominator 1 - Sw + C(Wa) * pow(Sw, llambda) of the store p is not 0
KrDenominatorNonZero(p, Sw, Wa) ==
  Eval(Add(Sub(SOne, Sw),
           Mul(ClampedCoefficient(p.eta_, p.ei_, p.ef_, Wa),
               Pow(Sw, p.llambda_)))) # SZero

\* C15: on a finalized store, for Sw in [0, 1] with a non-zero denominator
\* the raw krw and krn for the same (Sw, Wa) add up to 1, whether obtained
\* from twoPhaseSatKrw and twoPhaseSatKrn or from relativePermeabilities;
\* the regularized krw and krn add up to 1 for every Sw, also for Sw <= 0
\* and Sw >= 1.
C15_ComplementaryPermeabilities ==
  LET Sw == fluidState.satW
      Wa == fluidState.wa
      one(kw, kn) == SSame(Add(kw, kn), SOne)
      nonZero == (SLt(SZero, Sw) /\ SLt(Sw, SOne))
                   => KrDenominatorNonZero(params, Sw, Wa)
  IN  (params.finalized_ /\ IsVal(last.out)) =>
        /\ (last.op = "DynamicWa::twoPhaseSatKrw"
              /\ KrDenominatorNonZero(params, Sw, Wa))
             => one(last.out.v, DynamicWa_twoPhaseSatKrn(params, Sw, Wa).v)
        /\ (last.op = "DynamicWa::twoPhaseSatKrn"
              /\ KrDenominatorNonZero(params, Sw, Wa))
             => one(DynamicWa_twoPhaseSatKrw(params, Sw, Wa).v, last.out.v)
        /\ (last.op = "DynamicWa::relativePermeabilities"
              /\ KrDenominatorNonZero(params, Sw, Wa))
             => one(last.out.v[1], last.out.v[2])
        /\ (last.op = "RegularizedDynamicWa::twoPhaseSatKrw" /\ nonZero)
             => one(last.out.v,
                    RegularizedDynamicWa_twoPhaseSatKrn(params, Sw, Wa).v)
        /\ (last.op = "RegularizedDynamicWa::twoPhaseSatKrn" /\ nonZero)
             => one(RegularizedDynamicWa_twoPhaseSatKrw(params, Sw, Wa).v,
                    last.out.v)
        /\ (last.op = "RegularizedDynamicWa::relativePermeabilities" /\ nonZero)
             => one(last.out.v[1], last.out.v[2])

\* C15, reached: the raw relative permeabilities at Sw = 1/2 for a Wa at
\* which the coefficient is clamped to ef
C15_Witness ==
  /\ last.op = "DynamicWa::relativePermeabilities"
  /\ params.finalized_
  /\ IsVal(last.out)
  /\ fluidState.satW = SFrac(1, 2)
  /\ SLt(params.ef_, SAdd(SMul(params.eta_, fluidState.wa), params.ei_))
  /\ ~SSame(last.out.v[1], last.out.v[2])

(***************************************************************************)
(* SpecThreads: NumThreads threads that each make one call of an evaluator *)
(* entry point, for the same fluid state, on one finalized regularized     *)
(* store, with nothing that orders their steps.  A call reads the members  *)
(* of the store it uses one at a time, in the order of their first use,    *)
(* into view (seen names the members read so far), and returns what the    *)
(* entry point computes from what it has read.                             *)
(***************************************************************************)
NumThreads == 2

Threads == 1 .. NumThreads

\* the entry points the threads call, those that take (params, Sw, Wa)
ThreadOps ==
  { c \o "::" \o f :
      c \in {"DynamicWa", "RegularizedDynamicWa"},
      f \in {"twoPhaseSatPcnw", "twoPhaseSatKrw", "twoPhaseSatKrn"} }

\* saturations of the fluid state the threads share: one for each branch of
\* the regularized curves
ThreadSwVals == {SFrac(1, 200), SFrac(1, 2), SInt(2)}

\* the content of a local the call has not yet loaded a member into
NotRead == [k |-> "notread", sg |-> 0, n |-> <<>>, d |-> NOne]

Unread(p) ==
  [f \in DOMAIN p |->
     IF f = "cls" THEN p[f] ELSE IF f = "finalized_" THEN FALSE ELSE NotRead]

Idle == [pos |-> "idle", op |-> "", seen |-> {}, view |-> <<>>, out |-> Void]

\* a store accessed through a reference to const is left as it is
StoreAfterRead_invalidating(p, f) == [p EXCEPT !.finalized_ = FALSE]

StoreAfterRead(p, f) == p

\* members DynamicWa::twoPhaseSatPcnw reads: the checked finalEntryPressure()
\* and entryPressure(), beta(), the checked lambda()
PcnwReads ==
  <<"finalized_", "finalEntryPressure_", "entryPressure_", "beta_", "lambda_">>

\* members DynamicWa::twoPhaseSatKrw and twoPhaseSatKrn read: eta(), ei(),
\* ef(), the checked llambda()
KrReads == <<"eta_", "ei_", "ef_", "finalized_", "llambda_">>

\* members a call of the raw entry point reads: none when its assertion fails
RawReads(isPcnw, Sw) ==
  IF ~SwInRange(Sw) THEN <<>> ELSE IF isPcnw THEN PcnwReads ELSE KrReads

\* the saturation of the first call RegularizedDynamicWa::twoPhaseSatPcnw
\* makes into the raw evaluator
FirstRawSaturation(Sw, Sthres) ==
  IF SLe(Sw, Sthres) THEN Sthres ELSE IF SGe(Sw, SOne) THEN SOne ELSE Sw

\* members the call of op reads, as far as what it has read determines them
Reads(op, Sw, view, seen) ==
  CASE op = "DynamicWa::twoPhaseSatPcnw" -> RawReads(TRUE, Sw)
    [] op \in {"DynamicWa::twoPhaseSatKrw", "DynamicWa::twoPhaseSatKrn"} ->
         RawReads(FALSE, Sw)
    [] op = "RegularizedDynamicWa::twoPhaseSatPcnw" ->
         <<"finalized_", "pcnwLowSw_">>
           \o (IF "pcnwLowSw_" \in seen
               THEN RawReads(TRUE, FirstRawSaturation(Sw, view.pcnwLowSw_))
               ELSE <<>>)
    [] OTHER ->
         IF SLe(Sw, SZero) \/ SGe(Sw, SOne) THEN <<>> ELSE KrReads

\* the first member of rs that is not in seen, or "" when there is none
RECURSIVE FirstUnread(_, _)
FirstUnread(rs, seen) ==
  IF rs = <<>> THEN ""
  ELSE IF Head(rs) \notin seen THEN Head(rs)
  ELSE FirstUnread(Tail(rs), seen)

\* the member the thread reads next, or "" when its call is about to return:
\* a failed EnsureFinalized::check() ends the call
NextRead(th, Sw) ==
  IF "finalized_" \in th.seen /\ ~th.view.finalized_ THEN ""
  ELSE FirstUnread(Reads(th.op, Sw, th.view, th.seen), th.seen)

ThreadCall(t, op) ==
  /\ threads[t].pos = "idle"
  /\ threads' = [threads EXCEPT ![t] =
       [pos |-> "reading", op |-> op, seen |-> {}, view |-> Unread(params),
        out |-> Void]]
  /\ UNCHANGED <<params, fluidState, last, nset>>

ThreadRead(t) ==
  /\ threads[t].pos = "reading"
  /\ NextRead(threads[t], fluidState.satW) # ""
  /\ LET f == NextRead(threads[t], fluidState.satW)
     IN  /\ threads' = [threads EXCEPT ![t].seen = @ \cup {f},
                                       ![t].view[f] = params[f]]
         /\ params' = StoreAfterRead(params, f)
  /\ UNCHANGED <<fluidState, last, nset>>

ThreadReturn(t) ==
  /\ threads[t].pos = "reading"
  /\ NextRead(threads[t], fluidState.satW) = ""
  /\ threads' = [threads EXCEPT
       ![t].pos = "done",
       ![t].out = Evaluate(threads[t].op, threads[t].view, fluidState)]
  /\ UNCHANGED <<params, fluidState, last, nset>>

InitThreads ==
  /\ \E g \in Profiles :
       LET r == Finalized(RegularizedDynamicWaParams_default(g))
       IN  /\ params = r.p
           /\ last = [op |-> "finalize", args |-> <<>>, out |-> r.out]
  /\ \E Sw \in ThreadSwVals : fluidState = FluidState(Sw, SInt(MaxWa))
  /\ nset = 0
  /\ threads = [t \in Threads |-> Idle]

NextThreads ==
  \E t \in Threads :
     \/ \E op \in ThreadOps : ThreadCall(t, op)
     \/ ThreadRead(t)
     \/ ThreadReturn(t)

SpecThreads == InitThreads /\ [][NextThreads]_vars

\* C12: while threads call evaluator entry points on one finalized store,
\* however their steps interleave, no step changes the store, and every call
\* that has returned has returned what its entry point returns for the
\* store and the fluid state when called alone.
C12_ConcurrentEvaluation ==
  /\ [][params' = params]_vars
  /\ [](\A t \in DOMAIN threads :
          threads[t].pos = "done" =>
            threads[t].out = Evaluate(threads[t].op, params, fluidState))

\* C12, reached: a regularized capillary pressure returned to one thread
\* while the call of another thread has read some but not all of its members
C12_Witness ==
  /\ threads # NoThreads
  /\ \E t \in Threads, u \in Threads :
       /\ threads[t].pos = "done"
       /\ threads[t].op = RegTwoPhaseSatPcnwOp
       /\ IsVal(threads[t].out)
       /\ threads[u].pos = "reading"
       /\ threads[u].seen # {}
       /\ NextRead(threads[u], fluidState.satW) # ""

\* the entry points of the regularized evaluator
RegularizedOps ==
  { "RegularizedDynamicWa::" \o f :
      f \in {"capillaryPressures", "relativePermeabilities", "pcnw",
             "twoPhaseSatPcnw", "krw", "twoPhaseSatKrw", "krn",
             "twoPhaseSatKrn"} }

\* C16: on a finalized regularized store whose threshold is in
\* [eps, 1 - eps], no entry point of the regularized evaluator ends in the
\* assertion failure of the raw evaluator, for any Sw and Wa: every raw call
\* it makes is for a saturation in [0, 1].
C16_NoRawAssertion ==
  LET t == params.pcnwLowSw_
      Sw == fluidState.satW
      Wa == fluidState.wa
  IN  (/\ params.cls = RegCls
       /\ params.finalized_
       /\ SLe(EvalEps, t) /\ SLe(t, SSub(SOne, EvalEps)))
        => /\ last.op \in RegularizedOps => last.out # AssertFailure
           /\ SwInRange(FirstRawSaturation(Sw, t))
           /\ SLe(Sw, t) =>
                /\ SwInRange(SAdd(t, EvalEps))
                /\ SwInRange(SSub(t, EvalEps))
                /\ PcnwLowBranch(params, t, Sw, Wa) # AssertFailure
           /\ SGe(Sw, SOne) =>
                /\ SwInRange(SSub(SOne, EvalEps))
                /\ PcnwHighBranch(params, Sw, Wa) # AssertFailure

\* C16, reached: the regularized capillary pressure for Sw = -1 on a store
\* with the threshold eps returns a value; the raw curve was evaluated at 0
C16_Witness ==
  /\ last.op = RegTwoPhaseSatPcnwOp
  /\ params.finalized_
  /\ params.pcnwLowSw_ = EvalEps
  /\ fluidState.satW = SInt(-1)
  /\ IsVal(last.out)

\* C17 as stated: when the two-argument constructor of the regularized store
\* returns, the four derived values are those its finalize() computes from
\* the two arguments and the threshold 0.01 whatever the members that the
\* constructor leaves unassigned hold.
C17_DerivedFromArguments ==
  last.op = "RegularizedDynamicWaParams(entryPressure, lambda)" =>
    \A g \in Images :
       LET q == RegularizedDynamicWaParams_init(last.args[1], last.args[2], g)
       IN  /\ q.out = last.out
           /\ \A f \in Derived : SSame(params[f], q.p[f])
====
